---- MODULE Spec2Model ----
(***************************************************************************)
(* The workspace page of prompt-stack (WorkspacePage) with its WebSocket   *)
(* session handling, and the REST client (ApiClient).                      *)
(*                                                                         *)
(* Strings whose content matters (message contents, HTTP status texts) are *)
(* sequences of one-character strings, so that concatenation, trim() and   *)
(* includes() are computed rather than assumed.                            *)
(***************************************************************************)
EXTENDS Integers, Sequences, FiniteSets, TLC

\* ------------------------------------------------------------- bounds
\* number of ProjectWebSocketService objects initializeWebSocket may create
MaxHandles == 2
\* number of inputs over a run: initializeWebSocket calls, inbound frames,
\* handleSendMessage calls and the project load
MaxInputs == 3
\* number of REST calls
MaxApiCalls == 3

Handles == 1..MaxHandles

\* ------------------------------------------------------------- values
Null == "null"
\* webSocketRef.current while it refers to no handle
NoHandle == 0

Disconnected == [status |-> "Disconnected", color |-> "bg-gray-500"]
SettingUp == [status |-> "Setting up (~3m)", color |-> "bg-yellow-500"]
Ready == [status |-> "Ready", color |-> "bg-green-500"]

\* the initial value of previewHash
InitialPreviewHash == 1

Last(s) == s[Len(s)]
Front(s) == SubSeq(s, 1, Len(s) - 1)

\* String.prototype.trim on a sequence of characters
RECURSIVE TrimLeft(_)
TrimLeft(s) ==
    IF s # <<>> /\ Head(s) = " " THEN TrimLeft(Tail(s)) ELSE s

RECURSIVE TrimRight(_)
TrimRight(s) ==
    IF s # <<>> /\ Last(s) = " " THEN TrimRight(Front(s)) ELSE s

Trim(s) == TrimRight(TrimLeft(s))

\* String.prototype.includes on sequences of characters
Includes(s, sub) ==
    \E i \in 1..(Len(s) - Len(sub) + 1) : SubSeq(s, i, i + Len(sub) - 1) = sub

\* ------------------------------------------------------------- inputs
Tunnels == {"https://x.test", "https://y.test"}
Fragments == {<<"a">>, <<"b">>}
PathLists == {<<"page.js">>}
\* what the user submits: nothing, a text, or only an image
SendInputs ==
    {[content |-> <<" ">>, images |-> <<>>],
     [content |-> <<"u">>, images |-> <<>>],
     [content |-> <<" ">>, images |-> <<"img">>]}

\* an optional field: absent, or present with a value
None == <<>>
Some(v) == <<v>>

FollowUps == {None, Some(<<"more">>)}

\* an inbound frame; the fields a frame of its for_type does not carry are
\* Null, empty or absent
Frame(t, st, url, c, done, f, p) ==
    [for_type |-> t, status |-> st, tunnel3000 |-> url, content |-> c,
     complete |-> done, suggested_follow_ups |-> f, paths |-> p]

NoFrame == Frame(Null, Null, Null, <<>>, FALSE, None, <<>>)

SandboxStatusFrames ==
    {Frame("sandbox_status", "READY", u, <<>>, FALSE, None, <<>>) : u \in Tunnels}
      \cup {Frame("sandbox_status", "BUILDING", Null, <<>>, FALSE, None, <<>>)}

ChatChunkFrames ==
    {Frame("chat_chunk", Null, Null, c, d, None, <<>>) :
        c \in Fragments, d \in BOOLEAN}
      \cup {Frame("chat_chunk", Null, Null, <<"b">>, TRUE, f, <<>>) :
              f \in FollowUps \ {None}}

FileTreeFrames ==
    {Frame("sandbox_file_tree", Null, Null, <<>>, FALSE, None, p) : p \in PathLists}

\* frames whose for_type is not one the page knows, or is missing
UnknownFrames ==
    {Frame(t, "READY", "https://x.test", <<"a">>, TRUE, Some(<<"more">>),
           <<"page.js">>) : t \in {"sandbox_log", Null}}

Frames == SandboxStatusFrames \cup ChatChunkFrames \cup FileTreeFrames
            \cup UnknownFrames

KnownTypes == {"sandbox_status", "chat_chunk", "sandbox_file_tree"}

\* transcripts the backend may hold for an existing chat
StoredTranscripts ==
    {<<>>,
     <<[role |-> "user", content |-> <<"u">>],
       [role |-> "assistant", content |-> <<"a">>]>>}

\* ------------------------------------------------------------- state
VARIABLES
    \* React state of WorkspacePage
    status, projectPreviewUrl, messages, projectFileTree, suggestedFollowUps,
    respStreaming, previewHash,
    \* webSocketRef.current: a handle or NoHandle
    webSocketRef,
    \* the value of `messages` the current handleSendMessage closure captured
    renderedMessages,
    \* the chatId prop, and whether the load effect has finished
    chatId, loaded,
    \* one ProjectWebSocketService per initializeWebSocket call
    nHandles, sock, promise, timer, listener,
    \* history: the last step taken, inputs so far, sendMessage calls made
    lastOp, nInputs, sent,
    \* history: the assistant turn in progress
    turn,
    \* history: tunnel of the last READY frame since status last became Disconnected
    readySince,
    \* ApiClient: localStorage token, page reloads, the last call
    token, reloads, apiLast, nApiCalls

modelVars == <<status, projectPreviewUrl, messages, projectFileTree,
               suggestedFollowUps, respStreaming, previewHash>>
handleVars == <<nHandles, sock, promise, timer, listener>>
apiVars == <<token, reloads, apiLast, nApiCalls>>
vars == <<status, projectPreviewUrl, messages, projectFileTree,
          suggestedFollowUps, respStreaming, previewHash, webSocketRef,
          renderedMessages, chatId, loaded, nHandles, sock, promise, timer,
          listener, lastOp, nInputs, sent, turn, readySince,
          token, reloads, apiLast, nApiCalls>>

NoOp(name) == [op |-> name, h |-> 0, data |-> NoFrame, outcome |-> Null]

NoTurn == [n |-> 0, acc |-> <<>>, clean |-> TRUE, complete |-> TRUE]

ChatIds == {"new", "chat-1"}

Init ==
    /\ status = Disconnected
    /\ projectPreviewUrl = Null
    /\ messages = <<>>
    /\ projectFileTree = <<>>
    /\ suggestedFollowUps = <<>>
    /\ respStreaming = FALSE
    /\ previewHash = InitialPreviewHash
    /\ webSocketRef = NoHandle
    /\ renderedMessages = <<>>
    /\ chatId \in ChatIds
    /\ loaded = (chatId = "new")
    /\ nHandles = 0
    /\ sock = [h \in Handles |-> "none"]
    /\ promise = [h \in Handles |-> "none"]
    /\ timer = [h \in Handles |-> "none"]
    /\ listener = [h \in Handles |-> FALSE]
    /\ lastOp = NoOp("mount")
    /\ nInputs = 0
    /\ sent = <<>>
    /\ turn = NoTurn
    /\ readySince = Null
    /\ token = Null
    /\ reloads = 0
    /\ apiLast = [client |-> Null, op |-> Null,
                  response |-> [status |-> 0, statusText |-> <<>>],
                  threw |-> FALSE, tokenBefore |-> Null, reloadsBefore |-> 0]
    /\ nApiCalls = 0

\* ------------------------------------------------- the Connection Handle
\* ProjectWebSocketService.connect(): creates the socket ws.ws
Connect(s, h) == [s EXCEPT ![h] = "connecting"]

\* ProjectWebSocketService.disconnect(): closes the socket; a no-op on a
\* socket that is already closing or closed
Disconnect(s, h) ==
    [s EXCEPT ![h] = IF @ \in {"connecting", "open"} THEN "closing" ELSE @]

\* the handle hands a received frame to its listener only
Delivered(h) == listener[h]

\* a socket's error event is followed by its close event in the same task:
\* while a socket is "failed", its close callback is the only step possible
NoTaskInProgress == \A h \in Handles : sock[h] # "failed"

\* ------------------------------------------------- the inbound handlers
HandleSandboxStatus(data) ==
    IF data.status = "READY"
    THEN /\ status' = Ready
         /\ projectPreviewUrl' = data.tunnel3000
    ELSE IF data.status = "BUILDING"
    THEN /\ status' = SettingUp
         /\ UNCHANGED projectPreviewUrl
    ELSE UNCHANGED <<status, projectPreviewUrl>>

HandleSandboxFileTree(data) ==
    projectFileTree' = data.paths

\* MergeChunk with the merge into the last assistant entry left out
MergeChunkNoMerge(prev, data) ==
    Append(prev, [role |-> "assistant", content |-> data.content])

MergeChunk(prev, data) ==
    IF prev # <<>> /\ Last(prev).role = "assistant"
    THEN Append(Front(prev),
                [Last(prev) EXCEPT !.content = @ \o data.content])
    ELSE Append(prev, [role |-> "assistant", content |-> data.content])

\* HandleChatChunk with the counter bumped outside the test of data.complete
HandleChatChunkBumpsAlways(data) ==
    /\ messages' = MergeChunk(messages, data)
    /\ previewHash' = previewHash + 1
    /\ IF data.complete
       THEN respStreaming' = FALSE
       ELSE UNCHANGED respStreaming
    /\ IF data.suggested_follow_ups # None
       THEN suggestedFollowUps' = Head(data.suggested_follow_ups)
       ELSE UNCHANGED suggestedFollowUps

\* HandleChatChunk with setRespStreaming(false) outside the test of data.complete
HandleChatChunkEndsStreamingAlways(data) ==
    /\ messages' = MergeChunk(messages, data)
    /\ respStreaming' = FALSE
    /\ IF data.complete
       THEN previewHash' = previewHash + 1
       ELSE UNCHANGED previewHash
    /\ IF data.suggested_follow_ups # None
       THEN suggestedFollowUps' = Head(data.suggested_follow_ups)
       ELSE UNCHANGED suggestedFollowUps

HandleChatChunk(data) ==
    /\ messages' = MergeChunk(messages, data)
    /\ IF data.complete
       THEN /\ respStreaming' = FALSE
            /\ previewHash' = previewHash + 1
       ELSE UNCHANGED <<respStreaming, previewHash>>
    /\ IF data.suggested_follow_ups # None
       THEN suggestedFollowUps' = Head(data.suggested_follow_ups)
       ELSE UNCHANGED suggestedFollowUps

\* HandleSocketMessage with the last `else if` written as `else`
HandleSocketMessageElse(data) ==
    IF data.for_type = "sandbox_status"
    THEN /\ HandleSandboxStatus(data)
         /\ UNCHANGED <<messages, projectFileTree, suggestedFollowUps,
                        respStreaming, previewHash>>
    ELSE IF data.for_type = "chat_chunk"
    THEN /\ HandleChatChunk(data)
         /\ UNCHANGED <<status, projectPreviewUrl, projectFileTree>>
    ELSE /\ HandleSandboxFileTree(data)
         /\ UNCHANGED <<status, projectPreviewUrl, messages,
                        suggestedFollowUps, respStreaming, previewHash>>

HandleSocketMessage(data) ==
    IF data.for_type = "sandbox_status"
    THEN /\ HandleSandboxStatus(data)
         /\ UNCHANGED <<messages, projectFileTree, suggestedFollowUps,
                        respStreaming, previewHash>>
    ELSE IF data.for_type = "chat_chunk"
    THEN /\ HandleChatChunk(data)
         /\ UNCHANGED <<status, projectPreviewUrl, projectFileTree>>
    ELSE IF data.for_type = "sandbox_file_tree"
    THEN /\ HandleSandboxFileTree(data)
         /\ UNCHANGED <<status, projectPreviewUrl, messages,
                        suggestedFollowUps, respStreaming, previewHash>>
    ELSE UNCHANGED modelVars

\* ------------------------------------------------- history bookkeeping
\* the turn in progress after a chat_chunk reached the listener
TurnAfterChunk(data) ==
    IF turn.complete
    THEN [n |-> 1, acc |-> data.content,
          clean |-> (messages = <<>> \/ Last(messages).role # "assistant"),
          complete |-> data.complete]
    ELSE [n |-> turn.n + 1, acc |-> turn.acc \o data.content,
          clean |-> turn.clean, complete |-> data.complete]

\* the turn in progress after the transcript was changed by something else
TurnAfterOther == IF turn.complete THEN turn ELSE [turn EXCEPT !.clean = FALSE]

ReadySinceAfter(data) ==
    IF data.for_type = "sandbox_status" /\ data.status = "READY"
    THEN data.tunnel3000
    ELSE readySince

\* ------------------------------------------------- connectWS
\* ConnectResolved without the setStatus call of line 63
ConnectResolvedKeepsStatus(h) ==
    /\ listener' = [listener EXCEPT ![h] = TRUE]
    /\ webSocketRef' = h
    /\ UNCHANGED <<status, projectPreviewUrl, readySince>>

\* lines 63-112: what connectWS does once the connect promise has resolved
ConnectResolved(h) ==
    /\ status' = SettingUp
    /\ listener' = [listener EXCEPT ![h] = TRUE]
    /\ webSocketRef' = h
    /\ UNCHANGED <<projectPreviewUrl, readySince>>

\* lines 113-116: the catch block, once the connect promise has rejected
ConnectRejected(h) ==
    /\ status' = Disconnected
    /\ readySince' = Null
    /\ UNCHANGED <<projectPreviewUrl, listener, webSocketRef>>

\* Settled as it would be if connectWS went on after a late event
SettledRunsOn(h) ==
    /\ status' = SettingUp
    /\ listener' = [listener EXCEPT ![h] = TRUE]
    /\ webSocketRef' = h
    /\ UNCHANGED <<projectPreviewUrl, readySince>>

\* a settled promise ignores resolve() and reject()
Settled(h) == UNCHANGED <<status, projectPreviewUrl, listener, webSocketRef, readySince>>

\* lines 53-56: ws.ws.onclose
OnClose(h) ==
    /\ status' = Disconnected
    /\ projectPreviewUrl' = Null

\* ------------------------------------------------- the steps
InitializeWebSocket ==
    /\ NoTaskInProgress
    /\ nHandles < MaxHandles
    /\ nInputs < MaxInputs
    /\ nInputs' = nInputs + 1
    /\ LET h == nHandles + 1
           closed == IF webSocketRef # NoHandle
                     THEN Disconnect(sock, webSocketRef)
                     ELSE sock
       IN /\ nHandles' = h
          /\ sock' = Connect(closed, h)
          /\ promise' = [promise EXCEPT ![h] = "pending"]
          /\ timer' = [timer EXCEPT ![h] = "armed"]
          /\ lastOp' = [NoOp("initializeWebSocket") EXCEPT !.h = h]
    /\ UNCHANGED <<modelVars, webSocketRef, renderedMessages, chatId, loaded,
                   listener, sent, turn, readySince, apiVars>>

\* ws.ws.onopen: resolve()
SocketOpen(h) ==
    /\ NoTaskInProgress
    /\ sock[h] = "connecting"
    /\ sock' = [sock EXCEPT ![h] = "open"]
    /\ IF promise[h] = "pending"
       THEN /\ promise' = [promise EXCEPT ![h] = "resolved"]
            /\ ConnectResolved(h)
            /\ lastOp' = [NoOp("open") EXCEPT !.h = h, !.outcome = "resolved"]
       ELSE /\ UNCHANGED promise
            /\ Settled(h)
            /\ lastOp' = [NoOp("open") EXCEPT !.h = h, !.outcome = "ignored"]
    /\ UNCHANGED <<messages, projectFileTree, suggestedFollowUps, respStreaming,
                   previewHash, renderedMessages, chatId, loaded, nHandles,
                   timer, nInputs, sent, turn, apiVars>>

\* ws.ws.onerror: reject(error); the socket's close event follows
SocketError(h) ==
    /\ NoTaskInProgress
    /\ sock[h] \in {"connecting", "open"}
    /\ sock' = [sock EXCEPT ![h] = "failed"]
    /\ IF promise[h] = "pending"
       THEN /\ promise' = [promise EXCEPT ![h] = "rejected"]
            /\ ConnectRejected(h)
            /\ lastOp' = [NoOp("error") EXCEPT !.h = h, !.outcome = "rejected"]
       ELSE /\ UNCHANGED promise
            /\ Settled(h)
            /\ lastOp' = [NoOp("error") EXCEPT !.h = h, !.outcome = "ignored"]
    /\ UNCHANGED <<messages, projectFileTree, suggestedFollowUps, respStreaming,
                   previewHash, renderedMessages, chatId, loaded, nHandles,
                   timer, nInputs, sent, turn, apiVars>>

\* the setTimeout callback: reject(new Error(...)); timers of equal delay
\* fire in the order they were set
Timeout(h) ==
    /\ NoTaskInProgress
    /\ timer[h] = "armed"
    /\ \A g \in Handles : g < h => timer[g] # "armed"
    /\ timer' = [timer EXCEPT ![h] = "fired"]
    /\ IF promise[h] = "pending"
       THEN /\ promise' = [promise EXCEPT ![h] = "rejected"]
            /\ ConnectRejected(h)
            /\ lastOp' = [NoOp("timeout") EXCEPT !.h = h, !.outcome = "rejected"]
       ELSE /\ UNCHANGED promise
            /\ Settled(h)
            /\ lastOp' = [NoOp("timeout") EXCEPT !.h = h, !.outcome = "ignored"]
    /\ UNCHANGED <<messages, projectFileTree, suggestedFollowUps, respStreaming,
                   previewHash, renderedMessages, chatId, loaded, nHandles,
                   sock, nInputs, sent, turn, apiVars>>

\* the socket's close event: after disconnect(), after an error, or when the
\* server closes an open socket
SocketClose(h) ==
    /\ \/ sock[h] = "failed"
       \/ NoTaskInProgress /\ sock[h] \in {"open", "closing"}
    /\ sock' = [sock EXCEPT ![h] = "closed"]
    /\ OnClose(h)
    /\ readySince' = Null
    /\ lastOp' = [NoOp("close") EXCEPT !.h = h]
    /\ UNCHANGED <<messages, projectFileTree, suggestedFollowUps, respStreaming,
                   previewHash, webSocketRef, renderedMessages, chatId, loaded,
                   nHandles, promise, timer, listener, nInputs, sent,
                   turn, apiVars>>

\* a frame arrives on an open socket
SocketMessage(h, data) ==
    /\ NoTaskInProgress
    /\ sock[h] = "open"
    /\ nInputs < MaxInputs
    /\ nInputs' = nInputs + 1
    /\ IF Delivered(h)
       THEN /\ HandleSocketMessage(data)
            /\ turn' = IF data.for_type = "chat_chunk"
                       THEN TurnAfterChunk(data) ELSE turn
            /\ readySince' = ReadySinceAfter(data)
            /\ lastOp' = [NoOp("message") EXCEPT !.h = h, !.data = data,
                                                 !.outcome = "handled"]
       ELSE /\ UNCHANGED <<modelVars, turn, readySince>>
            /\ lastOp' = [NoOp("message") EXCEPT !.h = h, !.data = data,
                                                 !.outcome = "dropped"]
    /\ UNCHANGED <<webSocketRef, renderedMessages, chatId, loaded, handleVars,
                   sent, apiVars>>

UserMessage(message) ==
    [role |-> "user", content |-> message.content, images |-> message.images]

HandleSendMessage(message) ==
    /\ NoTaskInProgress
    /\ nInputs < MaxInputs
    /\ nInputs' = nInputs + 1
    /\ IF Trim(message.content) = <<>> /\ Len(message.images) = 0
       THEN /\ lastOp' = [NoOp("send") EXCEPT !.outcome = "ignored"]
            /\ UNCHANGED <<respStreaming, messages, sent, turn>>
       ELSE /\ respStreaming' = TRUE
            /\ messages' = Append(messages, UserMessage(message))
            /\ turn' = TurnAfterOther
            /\ IF chatId = "new"
               THEN /\ lastOp' = [NoOp("send") EXCEPT !.outcome = "createChat"]
                    /\ UNCHANGED sent
               ELSE IF webSocketRef = NoHandle
               THEN /\ lastOp' = [NoOp("send") EXCEPT !.outcome = "TypeError"]
                    /\ UNCHANGED sent
               ELSE /\ lastOp' = [NoOp("send") EXCEPT !.h = webSocketRef,
                                                      !.outcome = "sendMessage"]
                    /\ sent' = Append(sent,
                          [h |-> webSocketRef, status |-> status,
                           sock |-> sock[webSocketRef],
                           chat |-> Append(renderedMessages, UserMessage(message))])
    /\ UNCHANGED <<status, projectPreviewUrl, projectFileTree, suggestedFollowUps,
                   previewHash, webSocketRef, renderedMessages, chatId, loaded,
                   handleVars, readySince, apiVars>>

\* React renders the page: the next handleSendMessage sees the new messages
Render ==
    /\ NoTaskInProgress
    /\ renderedMessages # messages
    /\ renderedMessages' = messages
    /\ lastOp' = NoOp("render")
    /\ UNCHANGED <<modelVars, webSocketRef, chatId, loaded, handleVars, nInputs,
                   sent, turn, readySince, apiVars>>

\* lines 170-194, chatId # 'new': api.getProject(chatId) answers, or fails
LoadProject(ok, stored) ==
    /\ NoTaskInProgress
    /\ chatId # "new"
    /\ ~loaded
    /\ nInputs < MaxInputs
    /\ nInputs' = nInputs + 1
    /\ loaded' = TRUE
    /\ IF ok
       THEN /\ messages' = [i \in 1..Len(stored) |->
                              [role |-> stored[i].role, content |-> stored[i].content]]
            /\ turn' = TurnAfterOther
            /\ lastOp' = [NoOp("load") EXCEPT !.outcome = "loaded"]
       ELSE /\ UNCHANGED <<messages, turn>>
            /\ lastOp' = [NoOp("load") EXCEPT !.outcome = "failed"]
    /\ UNCHANGED <<status, projectPreviewUrl, projectFileTree, suggestedFollowUps,
                   respStreaming, previewHash, webSocketRef, renderedMessages,
                   chatId, handleVars, sent, readySince, apiVars>>

Next ==
    \/ InitializeWebSocket
    \/ \E h \in Handles : SocketOpen(h)
    \/ \E h \in Handles : SocketError(h)
    \/ \E h \in Handles : Timeout(h)
    \/ \E h \in Handles : SocketClose(h)
    \/ \E h \in Handles, data \in Frames : SocketMessage(h, data)
    \/ \E message \in SendInputs : HandleSendMessage(message)
    \/ Render
    \/ \E ok \in BOOLEAN, stored \in StoredTranscripts : LoadProject(ok, stored)

Spec == Init /\ [][Next]_vars

\* ------------------------------------------------- ApiClient
ApiErrorPrefix == <<"A", "P", "I", " ", "e", "r", "r", "o", "r", ":", " ">>
Text401 == <<"4", "0", "1">>
TextUnauthorized == <<"U", "n", "a", "u", "t", "h", "o", "r", "i", "z", "e", "d">>
TextNotFound == <<"N", "o", "t", " ", "F", "o", "u", "n", "d">>
TextOK == <<"O", "K">>

\* what fetch() may answer; over HTTP/2 the status text is empty
Responses ==
    {[status |-> 200, statusText |-> TextOK],
     [status |-> 401, statusText |-> TextUnauthorized],
     [status |-> 401, statusText |-> <<>>],
     [status |-> 404, statusText |-> TextNotFound],
     [status |-> 404, statusText |-> <<>>]}

\* Response.ok
Ok(res) == res.status \in 200..299

Tokens == {"tok-1"}

\* the two ApiClient classes of the repository
AppClient == "part_003"
FrontendClient == "frontend/src/lib/api.js"

GetOps(client) ==
    IF client = AppClient
    THEN {"getTeams", "getChats", "getChat", "getTeamProjects", "getProject",
          "getProjectFile", "getStackPacks"}
    ELSE {"getUserProjects", "getProject"}
PostOps(client) ==
    IF client = AppClient THEN {"createChat"} ELSE {"createProject"}
PatchOps(client) == IF client = AppClient THEN {"updateChat"} ELSE {}
DeleteOps(client) == IF client = AppClient THEN {"deleteChat"} ELSE {}
PlainOps(client) ==
    GetOps(client) \cup PostOps(client) \cup PatchOps(client) \cup DeleteOps(client)

\* _get, _post, _patch and _delete: the JSON body, or throw
\* new Error(`API error: ${res.statusText}`)
Request(res) ==
    IF Ok(res)
    THEN [threw |-> FALSE, message |-> <<>>]
    ELSE [threw |-> TRUE, message |-> ApiErrorPrefix \o res.statusText]

\* IsUnauthorized without the look at the message
IsUnauthorizedAny(error) == error.threw

\* the test of getCurrentUser's catch block
IsUnauthorized(error) ==
    Includes(error.message, Text401) \/ Includes(error.message, TextUnauthorized)

Call(client, op, res, r) ==
    [client |-> client, op |-> op, response |-> res, threw |-> r.threw,
     tokenBefore |-> token, reloadsBefore |-> reloads]

ApiFrame ==
    UNCHANGED <<modelVars, webSocketRef, renderedMessages, chatId, loaded,
                handleVars, lastOp, nInputs, sent, turn, readySince>>

GetCurrentUser(client, res) ==
    /\ nApiCalls < MaxApiCalls
    /\ nApiCalls' = nApiCalls + 1
    /\ LET r == Request(res)
       IN /\ IF client = AppClient /\ r.threw /\ IsUnauthorized(r)
             THEN /\ token' = Null
                  /\ reloads' = reloads + 1
             ELSE UNCHANGED <<token, reloads>>
          /\ apiLast' = Call(client, "getCurrentUser", res, r)
    /\ ApiFrame

CreateAccount(client, res, newToken) ==
    /\ nApiCalls < MaxApiCalls
    /\ nApiCalls' = nApiCalls + 1
    /\ LET r == Request(res)
       IN /\ token' = IF r.threw THEN token ELSE newToken
          /\ apiLast' = Call(client, "createAccount", res, r)
    /\ UNCHANGED reloads
    /\ ApiFrame

\* every other method: return this._get(...) and the like
PlainCall(client, op, res) ==
    /\ nApiCalls < MaxApiCalls
    /\ nApiCalls' = nApiCalls + 1
    /\ apiLast' = Call(client, op, res, Request(res))
    /\ UNCHANGED <<token, reloads>>
    /\ ApiFrame

Clients == {AppClient, FrontendClient}

ApiNext ==
    \/ \E client \in Clients, res \in Responses : GetCurrentUser(client, res)
    \/ \E client \in Clients, res \in Responses, t \in Tokens :
          CreateAccount(client, res, t)
    \/ \E client \in Clients, res \in Responses :
          \E op \in PlainOps(client) : PlainCall(client, op, res)

ApiSpec == Init /\ [][ApiNext]_vars

\* ------------------------------------------------- claims
\* the last step handled a chat_chunk with complete = true
TurnCompleted ==
    /\ lastOp.op = "message"
    /\ lastOp.outcome = "handled"
    /\ lastOp.data.for_type = "chat_chunk"
    /\ lastOp.data.complete

LastEntryIs(content) ==
    /\ messages # <<>>
    /\ Last(messages).role = "assistant"
    /\ Last(messages).content = content

C2_AtMostOneLiveHandle ==
    Cardinality({h \in Handles : sock[h] \in {"connecting", "open"}}) <= 1

\* C3 as claimed: handleSendMessage called while the status is Disconnected
\* makes no sendMessage call on any handle.
C3_NoSendWhileDisconnected ==
    \A i \in 1..Len(sent) : sent[i].status # Disconnected

\* C4 as claimed: after a socket close, or a socket error or timeout that
\* rejected the connect, status Disconnected implies that the preview URL is
\* null.
C4_DisconnectedClearsPreview ==
    (/\ NoTaskInProgress
     /\ \/ lastOp.op = "close"
        \/ lastOp.op \in {"error", "timeout"} /\ lastOp.outcome = "rejected"
     /\ status = Disconnected)
        => projectPreviewUrl = Null

\* C5: a step in which a frame arrives whose for_type is not sandbox_status,
\* chat_chunk or sandbox_file_tree (or is missing) leaves status, preview URL,
\* transcript, file tree, follow-ups, streaming flag and preview counter
\* unchanged.
C5_UnknownFrameIgnored ==
    [][(/\ nInputs' = nInputs + 1
        /\ lastOp'.op = "message"
        /\ lastOp'.data.for_type \notin KnownTypes)
          => UNCHANGED modelVars]_vars

\* a frame of another for_type, carrying fields of every known one, was
\* handled by a page that had a transcript and had finished a turn
C5_Witness ==
    /\ lastOp.op = "message"
    /\ lastOp.outcome = "handled"
    /\ lastOp.data.for_type \notin KnownTypes
    /\ lastOp.data.paths # projectFileTree
    /\ messages # <<>>
    /\ previewHash > InitialPreviewHash

\* C6 as claimed: the preview URL always equals the port-3000 tunnel of the
\* most recent READY frame since the status last became Disconnected (null
\* when there was none).
C6_PreviewIsLastReadySinceDisconnect ==
    NoTaskInProgress => projectPreviewUrl = readySince

ClearsToken(call) ==
    /\ call.client = AppClient
    /\ call.op = "getCurrentUser"
    /\ ~Ok(call.response)
    /\ \/ Includes(call.response.statusText, Text401)
       \/ Includes(call.response.statusText, TextUnauthorized)

Resolves(h) == promise[h] = "pending" /\ promise'[h] = "resolved"

OldHandleEvent(h) ==
    /\ h < nHandles
    /\ \/ sock[h] # "closed" /\ sock'[h] = "closed"
       \/ /\ nInputs' = nInputs + 1
          /\ lastOp'.op = "message"
          /\ lastOp'.outcome = "handled"
          /\ lastOp'.h = h

\* C9 as claimed: once a newer handle has been created, no frame and no close
\* notification of an older handle changes status, preview URL, transcript or
\* file tree.
C9_OldHandleChangesNothing ==
    [][(\E h \in Handles : OldHandleEvent(h))
          => UNCHANGED <<status, projectPreviewUrl, messages, projectFileTree>>]_vars

\* handle h's socket opens, fails or times out in this step
RaceEvent(h) ==
    \/ sock[h] = "connecting" /\ sock'[h] = "open"
    \/ sock[h] # "failed" /\ sock'[h] = "failed"
    \/ timer[h] = "armed" /\ timer'[h] = "fired"

FrameSent == lastOp.op = "send" /\ lastOp.outcome = "sendMessage"

\* C11 as claimed: the frame sent for a user turn is {chat: M} with M exactly
\* the transcript as it stands right after the user message was appended:
\* every earlier entry, with all assistant content received so far, and the
\* new user message last.
C11_FrameIsTranscriptAfterAppend ==
    FrameSent => Last(sent).chat = messages

\* this step hands the listener a chat_chunk with complete = true
CompletingChunkStep ==
    /\ nInputs' = nInputs + 1
    /\ lastOp'.op = "message"
    /\ lastOp'.outcome = "handled"
    /\ lastOp'.data.for_type = "chat_chunk"
    /\ lastOp'.data.complete

\* C12: a step that handles a chat_chunk with complete = true sets the
\* streaming flag to false and adds exactly one to the preview counter; every
\* other step (a chunk with complete = false, any other frame, any other
\* event) leaves the counter unchanged. So the counter never decreases and is
\* its initial value plus the number of completing chunks handled.
C12_CounterCountsCompletedTurns ==
    [][IF CompletingChunkStep
       THEN previewHash' = previewHash + 1 /\ respStreaming' = FALSE
       ELSE previewHash' = previewHash]_vars

\* two completing chunks were handled after a send: the counter is two above
\* its initial value and the streaming flag is off again
C12_Witness ==
    /\ TurnCompleted
    /\ previewHash = InitialPreviewHash + 2
    /\ ~respStreaming

\* this step is a handleSendMessage call that got past the early return
SendStep ==
    /\ nInputs' = nInputs + 1
    /\ lastOp'.op = "send"
    /\ lastOp'.outcome # "ignored"

\* C13: handleSendMessage sets the streaming flag, and the only step that
\* takes the flag from true to false is the handling of a chat_chunk with
\* complete = true: no socket close, connect failure, timeout, sandbox_status,
\* sandbox_file_tree or other frame resets it, so it stays true for as long as
\* no completing chunk arrives.
C13_OnlyCompletingChunkEndsStreaming ==
    [][/\ SendStep => respStreaming'
       /\ (respStreaming /\ ~respStreaming') => CompletingChunkStep]_vars

\* a turn was sent on an open socket, the socket then closed, and the
\* streaming flag is still set
C13_Witness ==
    /\ lastOp.op = "close"
    /\ status = Disconnected
    /\ sent # <<>>
    /\ respStreaming

\* no two neighbouring entries of the transcript are both assistant entries
NoAdjacentAssistants(transcript) ==
    \A i \in 1..(Len(transcript) - 1) :
        ~(transcript[i].role = "assistant" /\ transcript[i + 1].role = "assistant")

\* this step hands the listener a chat_chunk
ChunkStep ==
    /\ nInputs' = nInputs + 1
    /\ lastOp'.op = "message"
    /\ lastOp'.outcome = "handled"
    /\ lastOp'.data.for_type = "chat_chunk"

\* C14: the transcript never holds two adjacent assistant entries; a handled
\* chat_chunk adds one assistant entry when the transcript is empty or ends
\* with a user entry, and otherwise keeps the number of entries and extends
\* the last (assistant) entry.
C14_NoAdjacentAssistantEntries ==
    [][/\ NoAdjacentAssistants(messages')
       /\ ChunkStep =>
            IF messages = <<>> \/ Last(messages).role = "user"
            THEN /\ messages' = Append(messages, Last(messages'))
                 /\ Last(messages').role = "assistant"
                 /\ Last(messages').content = lastOp'.data.content
            ELSE /\ Len(messages') = Len(messages)
                 /\ Front(messages') = Front(messages)
                 /\ Last(messages').role = "assistant"
                 /\ Last(messages').content =
                        Last(messages).content \o lastOp'.data.content]_vars

\* a chat_chunk was handled right after a user send: the transcript is the
\* user entry followed by one new assistant entry
C14_Witness ==
    /\ lastOp.op = "message"
    /\ lastOp.outcome = "handled"
    /\ lastOp.data.for_type = "chat_chunk"
    /\ sent # <<>>
    /\ Len(messages) = 2
    /\ messages[1].role = "user"
    /\ messages[2].role = "assistant"

====
